---- MODULE Spec2Model ----
(***************************************************************************)
(* Model of the Appnigma Integrations Node.js client:                      *)
(*   errors.ts  (AppnigmaAPIError, getDetails)                             *)
(*   client.ts  (AppnigmaClient: constructor, listConnections,             *)
(*               getConnectionCredentials, proxySalesforceRequest,         *)
(*               handleError, logRequest, logResponse)                     *)
(*                                                                         *)
(* Strings are sequences of tokens (a token is a run of characters that    *)
(* the code never splits); JavaScript values are tagged records; objects   *)
(* are sequences of <<key, value>> pairs in insertion order.               *)
(***************************************************************************)
EXTENDS Integers, Sequences, FiniteSets, TLC

VARIABLES env, client, ctor, calls, last

vars == <<env, client, ctor, calls, last>>

(***************************************************************************)
(* JavaScript values                                                       *)
(***************************************************************************)
Undef == [t |-> "undefined"]

Null == [t |-> "null"]

Str(s) == [t |-> "string", v |-> s]

Num(n) == [t |-> "number", v |-> n]

Bool(b) == [t |-> "boolean", v |-> b]

BigInt(n) == [t |-> "bigint", v |-> n]

Arr(items) == [t |-> "array", v |-> items]

Obj(pairs) == [t |-> "object", v |-> pairs]

\* ToBoolean: the falsy values are undefined, null, "", 0, 0n and false.
Truthy(x) ==
  CASE x.t = "undefined" -> FALSE
    [] x.t = "null" -> FALSE
    [] x.t = "string" -> x.v # <<>>
    [] x.t = "number" -> x.v # 0
    [] x.t = "bigint" -> x.v # 0
    [] x.t = "boolean" -> x.v
    [] OTHER -> TRUE

\* a || b
Or(a, b) == IF Truthy(a) THEN a ELSE b

\* k in o (own property of a plain object)
Has(o, k) == o.t = "object" /\ \E i \in 1..Len(o.v) : o.v[i][1] = k

\* o.k and o?.k : undefined when o has no such property (strings, undefined
\* and null carry none of the keys the code reads).
Get(o, k) ==
  IF Has(o, k)
    THEN o.v[CHOOSE i \in 1..Len(o.v) : o.v[i][1] = k][2]
    ELSE Undef

\* o[k] = v : overwrite in place, else append (insertion order).
SetProp(o, k, v) ==
  IF Has(o, k)
    THEN Obj([i \in 1..Len(o.v) |-> IF o.v[i][1] = k THEN <<k, v>> ELSE o.v[i]])
    ELSE Obj(Append(o.v, <<k, v>>))

Digit == <<"0", "1", "2", "3", "4", "5", "6", "7", "8", "9">>

RECURSIVE NumStr(_)
\* Number.prototype.toString for a natural number, one token per digit.
NumStr(n) ==
  IF n < 10 THEN <<Digit[n + 1]>> ELSE NumStr(n \div 10) \o <<Digit[(n % 10) + 1]>>

RECURSIVE ToStringJS(_)
RECURSIVE JoinJS(_)
\* Array.prototype.join(",") as used by ToString on arrays.
JoinJS(items) ==
  IF items = <<>> THEN <<>>
  ELSE LET h == IF items[1].t \in {"undefined", "null"} THEN <<>> ELSE ToStringJS(items[1])
       IN IF Len(items) = 1 THEN h ELSE h \o <<",">> \o JoinJS(Tail(items))

\* ToString(x): template literals, String(x), and the message of new Error(x).
ToStringJS(x) ==
  CASE x.t = "string" -> x.v
    [] x.t = "number" -> NumStr(x.v)
    [] x.t = "bigint" -> NumStr(x.v)
    [] x.t = "boolean" -> IF x.v THEN <<"true">> ELSE <<"false">>
    [] x.t = "null" -> <<"null">>
    [] x.t = "undefined" -> <<"undefined">>
    [] x.t = "array" -> JoinJS(x.v)
    [] OTHER -> <<"[object Object]">>

\* needle occurs in hay as a contiguous run of tokens.
Contains(hay, needle) ==
  \E i \in 0..(Len(hay) - Len(needle)) : SubSeq(hay, i + 1, i + Len(needle)) = needle

(***************************************************************************)
(* JSON.stringify(value, null, 2)                                          *)
(***************************************************************************)
RECURSIVE CanStringify(_)
RECURSIVE CanStringifyAll(_)
CanStringifyAll(items) ==
  items = <<>> \/ (CanStringify(items[1]) /\ CanStringifyAll(Tail(items)))

\* JSON.stringify throws a TypeError on a BigInt anywhere in the value.
CanStringify(x) ==
  CASE x.t = "bigint" -> FALSE
    [] x.t = "array" -> CanStringifyAll(x.v)
    [] x.t = "object" -> CanStringifyAll([i \in 1..Len(x.v) |-> x.v[i][2]])
    [] OTHER -> TRUE

RECURSIVE Stringify(_)
RECURSIVE StringifyItems(_)
RECURSIVE StringifyPairs(_)
\* array elements: undefined is written as null
StringifyItems(items) ==
  IF items = <<>> THEN <<>>
  ELSE LET h == IF items[1].t = "undefined" THEN <<"null">> ELSE Stringify(items[1])
       IN IF Len(items) = 1 THEN h ELSE h \o <<",">> \o StringifyItems(Tail(items))

\* object members: a member whose value is undefined is left out
StringifyPairs(pairs) ==
  IF pairs = <<>> THEN <<>>
  ELSE LET rest == StringifyPairs(Tail(pairs))
       IN IF pairs[1][2].t = "undefined" THEN rest
          ELSE <<"\"", pairs[1][1], "\"", ":">> \o Stringify(pairs[1][2])
               \o (IF rest = <<>> THEN <<>> ELSE <<",">> \o rest)

\* The text JSON.stringify produces (console.log prints "undefined" for the
\* undefined it returns on an undefined value).  Defined where CanStringify.
Stringify(x) ==
  CASE x.t = "string" -> <<"\"">> \o x.v \o <<"\"">>
    [] x.t = "number" -> NumStr(x.v)
    [] x.t = "boolean" -> IF x.v THEN <<"true">> ELSE <<"false">>
    [] x.t = "null" -> <<"null">>
    [] x.t = "undefined" -> <<"undefined">>
    [] x.t = "array" -> <<"[">> \o StringifyItems(x.v) \o <<"]">>
    [] x.t = "object" -> <<"{">> \o StringifyPairs(x.v) \o <<"}">>
    [] OTHER -> <<>>

\* The TypeError JSON.stringify throws.
StringifyError == [k |-> "error", name |-> "TypeError",
                   message |-> Str(<<"Do not know how to serialize a BigInt">>)]

(***************************************************************************)
(* errors.ts                                                               *)
(***************************************************************************)
\* new AppnigmaAPIError(statusCode, error, message, responseBody):
\* super(message) stores ToString(message) ('' when message is undefined);
\* the other three fields are stored as given.
AppnigmaAPIError(statusCode, error, message, responseBody) ==
  [k |-> "AppnigmaAPIError", statusCode |-> statusCode, error |-> error,
   message |-> IF message.t = "undefined" THEN <<>> ELSE ToStringJS(message),
   responseBody |-> responseBody]

\* getDetails with the two optional members defaulted when the body lacks them.
getDetailsDefaulted(e) ==
  Obj(<<<<"error", e.error>>, <<"message", Str(e.message)>>>>
      \o (IF Get(e.responseBody, "planLimit").t # "undefined"
            THEN <<<<"planLimit", Get(e.responseBody, "planLimit")>>,
                   <<"currentUsage",
                     IF Has(e.responseBody, "currentUsage")
                       THEN Get(e.responseBody, "currentUsage") ELSE Num(0)>>,
                   <<"offerings",
                     IF Has(e.responseBody, "offerings")
                       THEN Get(e.responseBody, "offerings") ELSE Arr(<<>>)>>>>
            ELSE <<>>))

\* getDetails(): error and message, and the three rate-limit members when
\* responseBody?.planLimit !== undefined.
getDetails(e) ==
  Obj(<<<<"error", e.error>>, <<"message", Str(e.message)>>>>
      \o (IF Get(e.responseBody, "planLimit").t # "undefined"
            THEN <<<<"planLimit", Get(e.responseBody, "planLimit")>>,
                   <<"currentUsage", Get(e.responseBody, "currentUsage")>>,
                   <<"offerings", Get(e.responseBody, "offerings")>>>>
            ELSE <<>>))

(***************************************************************************)
(* client.ts: constants and constructor                                    *)
(***************************************************************************)
SDK_VERSION == <<"0.1.3">>

DEFAULT_BASE_URL == <<"https://integrations.appnigma.ai">>

DEFAULT_TIMEOUT == 30000

\* What the transport (axios) can throw, and the response it can carry.
Response(status, data) == [t |-> "response", status |-> status, data |-> data]

AxiosError(code, response, message) ==
  [k |-> "axios", code |-> code, response |-> response, message |-> message]

PlainError(name, message) == [k |-> "error", name |-> name, message |-> message]

ThrownValue(value) == [k |-> "value", value |-> value]

\* baseUrl.replace(/\/$/, ''): drops one "/" at the very end ("/" is always
\* a token of its own).
\* A normalisation that removes every trailing slash.
StripTrailingSlashes(s) ==
  LET keep == {k \in 0..Len(s) : k = 0 \/ s[k] # "/"}
  IN SubSeq(s, 1, CHOOSE k \in keep : \A j \in keep : j <= k)

StripTrailingSlash(s) ==
  IF s # <<>> /\ s[Len(s)] = "/" THEN SubSeq(s, 1, Len(s) - 1) ELSE s

MissingKeyError ==
  PlainError("Error",
    Str(<<"API key is required. Provide it in the constructor or set APPNIGMA_API_KEY environment variable.">>))

\* The constructor reading the environment before the configuration.
ConstructorEnvFirst(config, envKey) ==
  LET apiKey == Or(Or(envKey, config.apiKey), Str(<<>>))
      baseUrl == Or(config.baseUrl, Str(DEFAULT_BASE_URL))
      debug == Or(config.debug, Bool(FALSE))
  IN IF ~Truthy(apiKey)
       THEN [ok |-> FALSE, error |-> MissingKeyError]
       ELSE [ok |-> TRUE,
             client |-> [apiKey |-> apiKey.v,
                         baseUrl |-> StripTrailingSlash(baseUrl.v),
                         debug |-> debug.v]]

\* The constructor with the key tested against undefined instead of falsy.
ConstructorUndefinedTest(config, envKey) ==
  LET apiKey == Or(Or(config.apiKey, envKey), Str(<<>>))
      baseUrl == Or(config.baseUrl, Str(DEFAULT_BASE_URL))
      debug == Or(config.debug, Bool(FALSE))
  IN IF config.apiKey.t = "undefined" /\ envKey.t = "undefined"
       THEN [ok |-> FALSE, error |-> MissingKeyError]
       ELSE [ok |-> TRUE,
             client |-> [apiKey |-> apiKey.v,
                         baseUrl |-> StripTrailingSlash(baseUrl.v),
                         debug |-> debug.v]]

\* new AppnigmaClient(config) with process.env.APPNIGMA_API_KEY = envKey.
\* Yields the client, or the error thrown before any field but apiKey is set.
Constructor(config, envKey) ==
  LET apiKey == Or(Or(config.apiKey, envKey), Str(<<>>))
      baseUrl == Or(config.baseUrl, Str(DEFAULT_BASE_URL))
      debug == Or(config.debug, Bool(FALSE))
  IN IF ~Truthy(apiKey)
       THEN [ok |-> FALSE, error |-> MissingKeyError]
       ELSE [ok |-> TRUE,
             client |-> [apiKey |-> apiKey.v,
                         baseUrl |-> StripTrailingSlash(baseUrl.v),
                         debug |-> debug.v]]

(***************************************************************************)
(* client.ts: handleError                                                  *)
(***************************************************************************)
TimeoutCodes == {Str(<<"ECONNABORTED">>), Str(<<"ETIMEDOUT">>)}

ConnectionCodes == {Str(<<"ECONNREFUSED">>), Str(<<"ENOTFOUND">>)}

\* The timeout error reported under the HTTP status 408.
TimeoutErrorWithStatus(method, url) ==
  AppnigmaAPIError(408, Str(<<"NetworkError">>),
    Str(<<"Request timeout: ">> \o method \o <<" ">> \o url
        \o <<" exceeded ">> \o NumStr(DEFAULT_TIMEOUT) \o <<"ms">>),
    Undef)

\* The timeout error with a message that leaves out the verb.
TimeoutErrorNoVerb(method, url) ==
  AppnigmaAPIError(0, Str(<<"NetworkError">>),
    Str(<<"Request timeout: ">> \o url
        \o <<" exceeded ">> \o NumStr(DEFAULT_TIMEOUT) \o <<"ms">>),
    Undef)

\* lines 236-241: the error of a timed-out request
TimeoutError(method, url) ==
  AppnigmaAPIError(0, Str(<<"NetworkError">>),
    Str(<<"Request timeout: ">> \o method \o <<" ">> \o url
        \o <<" exceeded ">> \o NumStr(DEFAULT_TIMEOUT) \o <<"ms">>),
    Undef)

\* The connection error filed under the generic request-error code.
ConnectionErrorAsRequest(url) ==
  AppnigmaAPIError(0, Str(<<"RequestError">>),
    Str(<<"Connection failed: Unable to reach ">> \o url), Undef)

\* lines 245-250: the error of a refused or unresolved connection
ConnectionError(url) ==
  AppnigmaAPIError(0, Str(<<"NetworkError">>),
    Str(<<"Connection failed: Unable to reach ">> \o url), Undef)

\* The response error with ?? in place of ||: only an absent field defaults.
ResponseErrorNullish(response) ==
  LET statusCode == response.status
      responseData == Or(response.data, Obj(<<>>))
      orElse(a, b) == IF a.t \in {"undefined", "null"} THEN b ELSE a
  IN AppnigmaAPIError(statusCode,
       orElse(Get(responseData, "error"), Str(<<"APIError">>)),
       orElse(Get(responseData, "message"),
              Str(<<"API request failed with status ">> \o NumStr(statusCode))),
       responseData)

\* lines 255-263: the error of a received failing response
ResponseError(response) ==
  LET statusCode == response.status
      responseData == Or(response.data, Obj(<<>>))
  IN AppnigmaAPIError(statusCode,
       Or(Get(responseData, "error"), Str(<<"APIError">>)),
       Or(Get(responseData, "message"),
          Str(<<"API request failed with status ">> \o NumStr(statusCode))),
       responseData)

\* The catch-all transport error filed under the non-transport code.
RequestErrorAsUnknown(error) ==
  AppnigmaAPIError(0, Str(<<"UnknownError">>),
    Or(error.message, Str(<<"Unknown request error">>)), Undef)

\* lines 267-272: any other axios error
RequestError(error) ==
  AppnigmaAPIError(0, Str(<<"RequestError">>),
    Or(error.message, Str(<<"Unknown request error">>)), Undef)

\* handleError with the catch-all transport rule tested before the response.
handleErrorRequestFirst(error, method, url) ==
  IF error.k = "axios"
    THEN
      IF error.code \in TimeoutCodes THEN TimeoutError(method, url)
      ELSE IF error.code \in ConnectionCodes THEN ConnectionError(url)
      ELSE RequestError(error)
  ELSE IF error.k = "error"
    THEN AppnigmaAPIError(0, Str(<<"UnknownError">>), error.message, Undef)
  ELSE AppnigmaAPIError(0, Str(<<"UnknownError">>),
         Str(<<"An unknown error occurred">>), Undef)

\* handleError with the received response tested before the error codes.
handleErrorResponseFirst(error, method, url) ==
  IF error.k = "axios"
    THEN
      IF Truthy(error.response) THEN ResponseError(error.response)
      ELSE IF error.code \in TimeoutCodes THEN TimeoutError(method, url)
      ELSE IF error.code \in ConnectionCodes THEN ConnectionError(url)
      ELSE RequestError(error)
  ELSE IF error.k = "error"
    THEN AppnigmaAPIError(0, Str(<<"UnknownError">>), error.message, Undef)
  ELSE AppnigmaAPIError(0, Str(<<"UnknownError">>),
         Str(<<"An unknown error occurred">>), Undef)

\* handleError(error, method, url)
handleError(error, method, url) ==
  IF error.k = "axios"
    THEN
      IF error.code \in TimeoutCodes THEN TimeoutError(method, url)
      ELSE IF error.code \in ConnectionCodes THEN ConnectionError(url)
      ELSE IF Truthy(error.response) THEN ResponseError(error.response)
      ELSE RequestError(error)
  ELSE IF error.k = "error"
    THEN AppnigmaAPIError(0, Str(<<"UnknownError">>), error.message, Undef)
  ELSE AppnigmaAPIError(0, Str(<<"UnknownError">>),
         Str(<<"An unknown error occurred">>), Undef)

(***************************************************************************)
(* client.ts: logRequest, logResponse                                      *)
(***************************************************************************)
LogPrefix == "[Appnigma SDK] "

\* logRequest redacting the headers object it is given, not a copy of it.
logRequestInPlace(method, url, headers, body) ==
  LET redactedHeaders ==
        IF Truthy(Get(headers, "Authorization"))
          THEN SetProp(headers, "Authorization", Str(<<"Bearer ***">>))
          ELSE headers
      line1 == <<LogPrefix>> \o method \o <<" ">> \o url
      line2 == <<LogPrefix, "Headers:", " ">> \o Stringify(redactedHeaders)
      line3 == <<LogPrefix, "Request Body:", " ">> \o Stringify(body)
      out(lines, threw) == [lines |-> lines, threw |-> threw, headers |-> redactedHeaders]
  IN IF ~CanStringify(redactedHeaders) THEN out(<<line1>>, TRUE)
     ELSE IF ~Truthy(body) THEN out(<<line1, line2>>, FALSE)
     ELSE IF ~CanStringify(body) THEN out(<<line1, line2>>, TRUE)
     ELSE out(<<line1, line2, line3>>, FALSE)

\* logRequest(method, url, headers, body): the console lines written,
\* whether JSON.stringify threw (the lines before the throw are written),
\* and the caller's headers object as the call leaves it: untouched, the
\* placeholder being written to the copy { ...headers }.
logRequest(method, url, headers, body) ==
  LET redactedHeaders ==
        IF Truthy(Get(headers, "Authorization"))
          THEN SetProp(headers, "Authorization", Str(<<"Bearer ***">>))
          ELSE headers
      line1 == <<LogPrefix>> \o method \o <<" ">> \o url
      line2 == <<LogPrefix, "Headers:", " ">> \o Stringify(redactedHeaders)
      line3 == <<LogPrefix, "Request Body:", " ">> \o Stringify(body)
      out(lines, threw) == [lines |-> lines, threw |-> threw, headers |-> headers]
  IN IF ~CanStringify(redactedHeaders) THEN out(<<line1>>, TRUE)
     ELSE IF ~Truthy(body) THEN out(<<line1, line2>>, FALSE)
     ELSE IF ~CanStringify(body) THEN out(<<line1, line2>>, TRUE)
     ELSE out(<<line1, line2, line3>>, FALSE)

\* logResponse(method, url, status, body)
logResponse(method, url, status, body) ==
  LET line1 == <<LogPrefix>> \o method \o <<" ">> \o url
               \o <<" - Status: ">> \o NumStr(status)
      line2 == <<LogPrefix, "Response Body:", " ">> \o Stringify(body)
  IN IF ~CanStringify(body) THEN [lines |-> <<line1>>, threw |-> TRUE]
     ELSE [lines |-> <<line1, line2>>, threw |-> FALSE]

(***************************************************************************)
(* client.ts: the request each operation builds                            *)
(***************************************************************************)
\* A serialisation that leaves every token as it is.
EncodeTokenRaw(tok) == tok

\* application/x-www-form-urlencoded serialisation of one token, as
\* URLSearchParams.toString() does it.
EncodeToken(tok) ==
  CASE tok = " " -> "+"
    [] tok = "+" -> "%2B"
    [] tok = "&" -> "%26"
    [] tok = "=" -> "%3D"
    [] tok = "?" -> "%3F"
    [] tok = "/" -> "%2F"
    [] tok = "#" -> "%23"
    [] OTHER -> tok

Encode(s) == [i \in 1..Len(s) |-> EncodeToken(s[i])]

ParamNames == <<"environment", "status", "search", "limit", "cursor">>

RECURSIVE QueryString(_, _)
\* params.toString() after the five conditional params.set calls, from the
\* i-th parameter name on.
QueryString(options, i) ==
  IF i > Len(ParamNames) THEN <<>>
  ELSE LET rest == QueryString(options, i + 1)
           val == Get(options, ParamNames[i])
       IN IF val.t = "undefined" THEN rest
          ELSE <<ParamNames[i], "=">> \o Encode(ToStringJS(val))
               \o (IF rest = <<>> THEN <<>> ELSE <<"&">> \o rest)

\* The two common headers with the key sent bare.
BaseHeadersBareKey(c) ==
  <<<<"Authorization", Str(c.apiKey)>>,
    <<"User-Agent", Str(<<"Appnigma-Integrations-Client-Node/">> \o SDK_VERSION)>>>>

\* The headers every operation starts from: lines 97-100, 148-151, 193-198
BaseHeaders(c) ==
  <<<<"Authorization", Str(<<"Bearer ">> \o c.apiKey)>>,
    <<"User-Agent", Str(<<"Appnigma-Integrations-Client-Node/">> \o SDK_VERSION)>>>>

\* The header set by an `!== undefined` test.
WithIntegrationDefined(headers, integrationId) ==
  IF integrationId.t # "undefined"
    THEN SetProp(headers, "X-Integration-Id", integrationId)
    ELSE headers

\* if (integrationId) headers['X-Integration-Id'] = integrationId
WithIntegration(headers, integrationId) ==
  IF Truthy(integrationId) THEN SetProp(headers, "X-Integration-Id", integrationId)
  ELSE headers

\* listConnections taking its timeout from the page size when one is given.
listConnectionsTimeoutFromLimit(c, options) ==
  LET queryString == QueryString(options, 1)
  IN [method |-> <<"GET">>,
      url |-> c.baseUrl \o <<"/api/v1/connections">>
              \o (IF queryString # <<>> THEN <<"?">> \o queryString ELSE <<>>),
      headers |-> WithIntegration(Obj(BaseHeaders(c)), Get(options, "integrationId")),
      data |-> Undef,
      timeout |-> IF Get(options, "limit").t = "number"
                    THEN Get(options, "limit").v ELSE DEFAULT_TIMEOUT]

\* listConnections(options): lines 97-124
listConnectionsRequest(c, options) ==
  LET queryString == QueryString(options, 1)
  IN [method |-> <<"GET">>,
      url |-> c.baseUrl \o <<"/api/v1/connections">>
              \o (IF queryString # <<>> THEN <<"?">> \o queryString ELSE <<>>),
      headers |-> WithIntegration(Obj(BaseHeaders(c)), Get(options, "integrationId")),
      data |-> Undef,
      timeout |-> DEFAULT_TIMEOUT]

\* getConnectionCredentials(connectionId, integrationId): lines 148-167
getConnectionCredentialsRequest(c, connectionId, integrationId) ==
  [method |-> <<"GET">>,
   url |-> c.baseUrl \o <<"/api/v1/connections/">> \o ToStringJS(connectionId)
           \o <<"/credentials">>,
   headers |-> WithIntegration(Obj(BaseHeaders(c)), integrationId),
   data |-> Undef,
   timeout |-> DEFAULT_TIMEOUT]

\* The proxy request addressed by a path segment instead of a header.
proxySalesforceRequestInPath(c, connectionId, requestData, integrationId) ==
  [method |-> <<"POST">>,
   url |-> c.baseUrl \o <<"/api/v1/proxy/salesforce", "/">> \o ToStringJS(connectionId),
   headers |-> WithIntegration(
                 Obj(<<BaseHeaders(c)[1],
                       <<"Content-Type", Str(<<"application/json">>)>>,
                       BaseHeaders(c)[2]>>),
                 integrationId),
   data |-> requestData,
   timeout |-> DEFAULT_TIMEOUT]

\* proxySalesforceRequest(connectionId, requestData, integrationId): 193-214
proxySalesforceRequestRequest(c, connectionId, requestData, integrationId) ==
  [method |-> <<"POST">>,
   url |-> c.baseUrl \o <<"/api/v1/proxy/salesforce">>,
   headers |-> WithIntegration(
                 Obj(<<BaseHeaders(c)[1],
                       <<"Content-Type", Str(<<"application/json">>)>>,
                       <<"X-Connection-Id", connectionId>>,
                       BaseHeaders(c)[2]>>),
                 integrationId),
   data |-> requestData,
   timeout |-> DEFAULT_TIMEOUT]

\* A call is [op, connectionId, integrationId, options, requestData]; the
\* arguments an operation does not take are undefined.
RequestOf(c, call) ==
  CASE call.op = "listConnections" -> listConnectionsRequest(c, call.options)
    [] call.op = "getConnectionCredentials" ->
         getConnectionCredentialsRequest(c, call.connectionId, call.integrationId)
    [] OTHER ->
         proxySalesforceRequestRequest(c, call.connectionId, call.requestData,
                                       call.integrationId)

(***************************************************************************)
(* client.ts: the three operations.  Each runs synchronously up to the     *)
(* await of the transport call (Begin) and resumes when the transport      *)
(* settles (Finish); the three bodies differ only in the request built.    *)
(***************************************************************************)
Return(value) == [kind |-> "return", value |-> value]

Throw(error) == [kind |-> "throw", error |-> error]

\* Up to the await: build the request, log it when debug is set (outside
\* the try block, so a throw of logRequest leaves the operation as it is),
\* hand the request to the transport, with the headers object as logRequest
\* left it.
Begin(c, call) ==
  LET built == RequestOf(c, call)
      lg == logRequest(built.method, built.url, built.headers, built.data)
      req == IF c.debug THEN [built EXCEPT !.headers = lg.headers] ELSE built
  IN IF c.debug /\ lg.threw
       THEN [pc |-> "threw", req |-> req, log |-> lg.lines,
             error |-> StringifyError, trace |-> <<"logRequest", "throw">>]
       ELSE [pc |-> "awaiting", req |-> req,
             log |-> IF c.debug THEN lg.lines ELSE <<>>,
             trace |-> IF c.debug THEN <<"logRequest", "send">> ELSE <<"send">>]

\* The operation returning `response.data || {}`.
FinishDefaulted(c, req, outcome) ==
  IF outcome.k = "response"
    THEN [log |-> IF c.debug
                    THEN logResponse(req.method, req.url, outcome.response.status,
                                     outcome.response.data).lines
                    ELSE <<>>,
          result |-> Return(Or(outcome.response.data, Obj(<<>>))),
          trace |-> IF c.debug THEN <<"logResponse", "return">> ELSE <<"return">>]
    ELSE [log |-> <<>>,
          result |-> Throw(handleError(outcome, req.method, req.url)),
          trace |-> <<"handleError", "throw">>]

\* From the await on: a 2xx response is logged when debug is set and its
\* data returned; anything thrown inside the try block goes to handleError.
Finish(c, req, outcome) ==
  IF outcome.k = "response"
    THEN LET lg == logResponse(req.method, req.url, outcome.response.status,
                               outcome.response.data)
         IN IF c.debug /\ lg.threw
              THEN [log |-> lg.lines,
                    result |-> Throw(handleError(StringifyError, req.method, req.url)),
                    trace |-> <<"logResponse", "handleError", "throw">>]
              ELSE [log |-> IF c.debug THEN lg.lines ELSE <<>>,
                    result |-> Return(outcome.response.data),
                    trace |-> IF c.debug THEN <<"logResponse", "return">>
                              ELSE <<"return">>]
    ELSE [log |-> <<>>,
          result |-> Throw(handleError(outcome, req.method, req.url)),
          trace |-> <<"handleError", "throw">>]

(***************************************************************************)
(* State                                                                   *)
(*   env    process.env.APPNIGMA_API_KEY                                   *)
(*   client the AppnigmaClient the program holds, or undefined             *)
(*   ctor   how the last construction ended                                *)
(*   calls  the operations awaiting the transport, one per slot            *)
(*   last   the operation that settled last, as its caller sees it         *)
(***************************************************************************)
MaxInFlight == 2

\* error.getDetails() as the caller's catch block reads it; undefined when
\* nothing was thrown or the thrown error is no AppnigmaAPIError.
DetailsOf(result) ==
  IF result.kind = "throw" /\ result.error.k = "AppnigmaAPIError"
    THEN getDetails(result.error)
    ELSE Undef

Slots == 1..MaxInFlight

NoClient == Undef

Idle == [pc |-> "idle"]

NoCall == [id |-> 0]

NoOutcome == [k |-> "none"]

Client(c) == [t |-> "client", apiKey |-> c.apiKey, baseUrl |-> c.baseUrl, debug |-> c.debug]

\* new AppnigmaClient(config)
Construct(config) ==
  /\ client = NoClient
  /\ LET r == Constructor(config, env)
     IN IF r.ok
          THEN /\ client' = Client(r.client)
               /\ ctor' = [state |-> "ok", config |-> config]
          ELSE /\ client' = NoClient
               /\ ctor' = [state |-> "threw", config |-> config, error |-> r.error]
  /\ UNCHANGED <<env, calls, last>>

\* An operation that keeps the URL it built on the client.
InvokeStoringUrl(id, call) ==
  /\ client # NoClient
  /\ calls[id] = Idle
  /\ LET b == Begin(client, call)
     IN IF b.pc = "threw"
          THEN /\ last' = [id |-> id, call |-> call, req |-> b.req, sends |-> 0,
                           outcome |-> NoOutcome, result |-> Throw(b.error),
                           details |-> DetailsOf(Throw(b.error)),
                           log |-> b.log, trace |-> b.trace]
               /\ UNCHANGED <<calls, client>>
          ELSE /\ calls' = [calls EXCEPT ![id] =
                              [pc |-> "awaiting", call |-> call, req |-> b.req,
                               sends |-> 1, log |-> b.log, trace |-> b.trace]]
               /\ client' = [client EXCEPT !.baseUrl = b.req.url]
               /\ UNCHANGED last
  /\ UNCHANGED <<env, ctor>>

\* client.listConnections / getConnectionCredentials / proxySalesforceRequest
\* called: runs to the await, or rejects at once when logRequest throws.
Invoke(id, call) ==
  /\ client # NoClient
  /\ calls[id] = Idle
  /\ LET b == Begin(client, call)
     IN IF b.pc = "threw"
          THEN /\ last' = [id |-> id, call |-> call, req |-> b.req, sends |-> 0,
                           outcome |-> NoOutcome, result |-> Throw(b.error),
                           details |-> DetailsOf(Throw(b.error)),
                           log |-> b.log, trace |-> b.trace]
               /\ UNCHANGED calls
          ELSE /\ calls' = [calls EXCEPT ![id] =
                              [pc |-> "awaiting", call |-> call, req |-> b.req,
                               sends |-> 1, log |-> b.log, trace |-> b.trace]]
               /\ UNCHANGED last
  /\ UNCHANGED <<env, client, ctor>>

\* A settlement that is held back while another operation is in flight, as
\* a client queueing its operations would.
SettleAfterOthers(id, outcome) ==
  /\ calls[id] # Idle
  /\ \A i \in Slots \ {id} : calls[i] = Idle
  /\ LET w == calls[id]
         f == Finish(client, w.req, outcome)
     IN last' = [id |-> id, call |-> w.call, req |-> w.req, sends |-> w.sends,
                 outcome |-> outcome, result |-> f.result,
                 details |-> DetailsOf(f.result),
                 log |-> w.log \o f.log, trace |-> w.trace \o f.trace]
  /\ calls' = [calls EXCEPT ![id] = Idle]
  /\ UNCHANGED <<env, client, ctor>>

\* A settlement that resumes the operation of another slot still awaiting,
\* as a client keeping its pending request in one shared field would.
SettleCrossed(id, outcome) ==
  /\ calls[id] # Idle
  /\ LET others == {i \in Slots : i # id /\ calls[i] # Idle}
         w == IF others = {} THEN calls[id] ELSE calls[CHOOSE i \in others : TRUE]
         f == Finish(client, w.req, outcome)
     IN last' = [id |-> id, call |-> calls[id].call, req |-> w.req, sends |-> w.sends,
                 outcome |-> outcome, result |-> f.result,
                 details |-> DetailsOf(f.result),
                 log |-> w.log \o f.log, trace |-> w.trace \o f.trace]
  /\ calls' = [calls EXCEPT ![id] = Idle]
  /\ UNCHANGED <<env, client, ctor>>

\* The transport settles the awaited call of a slot with the outcome.
Settle(id, outcome) ==
  /\ calls[id] # Idle
  /\ LET w == calls[id]
         f == Finish(client, w.req, outcome)
     IN last' = [id |-> id, call |-> w.call, req |-> w.req, sends |-> w.sends,
                 outcome |-> outcome, result |-> f.result,
                 details |-> DetailsOf(f.result),
                 log |-> w.log \o f.log, trace |-> w.trace \o f.trace]
  /\ calls' = [calls EXCEPT ![id] = Idle]
  /\ UNCHANGED <<env, client, ctor>>

(***************************************************************************)
(* Inputs                                                                  *)
(***************************************************************************)
KeyA == <<"sk_live_A">>

KeyB == <<"sk_env_B">>

Config(apiKey, baseUrl, debug) == [apiKey |-> apiKey, baseUrl |-> baseUrl, debug |-> debug]

Call(op, connectionId, integrationId, options, requestData) ==
  [op |-> op, connectionId |-> connectionId, integrationId |-> integrationId,
   options |-> options, requestData |-> requestData]

ListCall(options) == Call("listConnections", Undef, Undef, options, Undef)

CredentialsCall(connectionId, integrationId) ==
  Call("getConnectionCredentials", connectionId, integrationId, Undef, Undef)

ProxyCall(connectionId, requestData, integrationId) ==
  Call("proxySalesforceRequest", connectionId, integrationId, Undef, requestData)

Ok(status, data) == [k |-> "response", response |-> Response(status, data)]

\* A member of an object literal, left out when the value is undefined.
Field(key, value) == IF value.t = "undefined" THEN <<>> ELSE <<<<key, value>>>>

SoqlRequest ==
  Obj(<<<<"method", Str(<<"GET">>)>>, <<"path", Str(<<"/services/data/v59.0/query">>)>>,
        <<"query", Obj(<<<<"q", Str(<<"SELECT Id FROM Account">>)>>>>)>>>>)

\* a record update whose data holds a BigInt
BigIntRequest ==
  Obj(<<<<"method", Str(<<"POST">>)>>, <<"path", Str(<<"/services/data/v59.0/sobjects/Account">>)>>,
        <<"data", Obj(<<<<"NumberOfEmployees", BigInt(10)>>>>)>>>>)

\* a record update that stores the API key in a Salesforce field
KeyRequest ==
  Obj(<<<<"method", Str(<<"PATCH">>)>>, <<"path", Str(<<"/services/data/v59.0/sobjects/Setting__c">>)>>,
        <<"data", Obj(<<<<"Appnigma_Key__c", Str(KeyA)>>>>)>>>>)

MainCalls ==
  { ListCall(Obj(<<<<"status", Str(<<"connected">>)>>, <<"limit", Num(50)>>>>)),
    CredentialsCall(Str(<<"conn-1">>), Undef),
    CredentialsCall(Str(<<"conn-2">>), Str(<<"int-1">>)),
    ProxyCall(Str(<<"conn-1">>), SoqlRequest, Undef),
    ProxyCall(Str(<<"conn-1">>), BigIntRequest, Undef),
    ProxyCall(Str(<<"conn-2">>), KeyRequest, Str(<<"int-1">>)) }

RateLimitBody ==
  Obj(<<<<"error", Str(<<"RateLimited">>)>>, <<"message", Str(<<"too many">>)>>,
        <<"planLimit", Num(1000)>>, <<"currentUsage", Num(1000)>>,
        <<"offerings", Arr(<<Str(<<"a">>)>>)>>>>)

MainOutcomes ==
  { Ok(200, Obj(<<<<"connections", Arr(<<>>)>>, <<"totalCount", Num(0)>>>>)),
    Ok(200, Obj(<<<<"accessToken", Str(<<"00D-token">>)>>>>)),
    Ok(204, Str(<<>>)),
    AxiosError(Str(<<"ECONNABORTED">>), Undef, Str(<<"timeout of 30000ms exceeded">>)),
    AxiosError(Str(<<"ERR_BAD_REQUEST">>), Response(429, RateLimitBody),
               Str(<<"Request failed with status code 429">>)),
    AxiosError(Str(<<"ERR_BAD_RESPONSE">>), Response(503, Str(<<>>)),
               Str(<<"Request failed with status code 503">>)),
    AxiosError(Str(<<"ERR_NETWORK">>), Undef, Str(<<"Network Error">>)),
    PlainError("TypeError", Str(<<"Do not know how to serialize a BigInt">>)) }

\* Every failure the classifier is given in the classifier specification:
\* an axios error with any code, with or without a response, any body.
ErrCodes ==
  {Undef, Str(<<"ERR_BAD_RESPONSE">>)} \cup TimeoutCodes \cup ConnectionCodes

ErrFieldValues == {Undef, Str(<<>>), Str(<<"RateLimited">>), Num(42)}

ErrMsgValues == {Undef, Str(<<>>), Str(<<"too many">>), Num(42)}

ErrBodies ==
  {Str(<<>>), Str(<<"Bad Gateway">>), Null,
   Obj(<<<<"error", Str(<<"NetworkError">>)>>>>)}
  \cup { Obj(Field("error", e) \o Field("message", m) \o Field("planLimit", p)
             \o Field("currentUsage", u) \o Field("offerings", f)) :
           e \in ErrFieldValues, m \in ErrMsgValues,
           p \in {Undef, Num(1000), Null}, u \in {Undef, Num(1000)},
           f \in {Undef, Arr(<<Str(<<"a">>)>>)} }

ErrResponses == {Undef} \cup {Response(st, b) : st \in {429, 503}, b \in ErrBodies}

ErrOutcomes ==
  { AxiosError(code, r, m) :
      code \in ErrCodes, r \in ErrResponses,
      m \in {Str(<<>>), Str(<<"socket hang up">>)} }
  \cup { PlainError("TypeError", Str(<<"x is not a function">>)),
         PlainError("Error", Str(<<>>)),
         ThrownValue(Str(<<"boom">>)), ThrownValue(Undef) }

ErrCalls ==
  { ListCall(Undef), CredentialsCall(Str(<<"conn-1">>), Undef),
    ProxyCall(Str(<<"conn-1">>), SoqlRequest, Undef) }

\* The configurations and environments of the construction specification.
CtorConfigs ==
  { Config(k, b, d) :
      k \in {Undef, Str(<<>>), Str(KeyA)},
      b \in {Undef, Str(<<>>), Str(<<"https://x">>), Str(<<"https://x", "/">>),
             Str(<<"https://x", "/", "/">>)},
      d \in {Undef, Bool(TRUE), Bool(FALSE)} }

EnvValues == {Undef, Str(<<>>), Str(KeyB)}

\* The answer of the service to one request: 200 with a body naming the
\* resource and the connection the request asked for.
AnswerTo(req) ==
  Ok(200, Obj(<<<<"requested", Str(req.url)>>>>
              \o Field("connection", Get(req.headers, "X-Connection-Id"))
              \o Field("integration", Get(req.headers, "X-Integration-Id"))))

\* What the transport can settle the call of a slot with.
Answers(id) ==
  IF calls[id] = Idle THEN {} ELSE MainOutcomes \cup {AnswerTo(calls[id].req)}

MainConfigs == {Config(Str(KeyA), Undef, Bool(TRUE)), Config(Str(KeyA), Undef, Undef)}

(***************************************************************************)
(* Specifications                                                          *)
(***************************************************************************)
\* The program holds a client built from one of MainConfigs.
Init ==
  /\ env = Undef
  /\ \E config \in MainConfigs :
       /\ client = Client(Constructor(config, env).client)
       /\ ctor = [state |-> "ok", config |-> config]
  /\ calls = [id \in Slots |-> Idle]
  /\ last = NoCall

\* Operations on the client, concurrently, the transport answering in any
\* order with any of MainOutcomes.
Next ==
  \/ \E id \in Slots, call \in MainCalls : Invoke(id, call)
  \/ \E id \in Slots : \E outcome \in Answers(id) : Settle(id, outcome)

Spec == Init /\ [][Next]_vars

\* The classifier specification: one operation, settled with any failure.
NextErr ==
  \/ \E call \in ErrCalls : last = NoCall /\ Invoke(1, call)
  \/ \E outcome \in ErrOutcomes : Settle(1, outcome)

SpecErr == Init /\ [][NextErr]_vars

\* The construction specification: no client yet, any environment.
InitCtor ==
  /\ env \in EnvValues
  /\ client = NoClient
  /\ ctor = [state |-> "none"]
  /\ calls = [id \in Slots |-> Idle]
  /\ last = NoCall

NextCtor ==
  \/ \E config \in CtorConfigs : Construct(config)
  \/ \E call \in ErrCalls : Invoke(1, call)
  \/ \E outcome \in MainOutcomes : Settle(1, outcome)

SpecCtor == InitCtor /\ [][NextCtor]_vars

(***************************************************************************)
(* Properties                                                              *)
(***************************************************************************)
Settled == last.id # 0

\* the settled operation rejected with an AppnigmaAPIError
ThrewAPI ==
  Settled /\ last.result.kind = "throw" /\ last.result.error.k = "AppnigmaAPIError"

NetworkCodes == TimeoutCodes \cup ConnectionCodes

\* the transport error carries a received HTTP response
GotResponse(o) == o.k = "axios" /\ Truthy(o.response)

VerbOf(op) == IF op = "proxySalesforceRequest" THEN <<"POST">> ELSE <<"GET">>

RateKeys == {"planLimit", "currentUsage", "offerings"}

\* C1: a construction with no explicit key (absent or empty) and no key in
\* the environment (absent or empty) throws the configuration error, leaves
\* the program without a client, and no transport call exists at that point:
\* none in flight and none settled.
C1_NoKeyConstructionFails ==
  (ctor.state # "none" /\ ~Truthy(ctor.config.apiKey) /\ ~Truthy(env))
    => /\ ctor.state = "threw"
       /\ ctor.error = MissingKeyError
       /\ client = NoClient
       /\ \A id \in Slots : calls[id] = Idle
       /\ last = NoCall

C1_Witness ==
  /\ ctor.state = "threw"
  /\ ctor.config.apiKey = Str(<<>>)
  /\ env = Str(<<>>)
  /\ client = NoClient

\* C2 as stated: statusCode is 0 exactly when no HTTP response was received,
\* and equals the response's status whenever the transport error carries a
\* response, also when it carries a timeout or connection-failure code.
C2_Original ==
  ThrewAPI =>
    LET e == last.result.error
        o == last.outcome
    IN /\ (e.statusCode = 0) <=> ~GotResponse(o)
       /\ GotResponse(o) => e.statusCode = o.response.status

\* C2 amended: statusCode is the response's status (non-zero) exactly when
\* the transport error carries a response and neither a timeout nor a
\* connection-failure code; in every other case, a response that comes with
\* such a code included, statusCode is 0.
C2_StatusCode ==
  ThrewAPI =>
    LET e == last.result.error
        o == last.outcome
    IN IF GotResponse(o) /\ o.code \notin NetworkCodes
         THEN e.statusCode = o.response.status /\ e.statusCode # 0
         ELSE e.statusCode = 0

C2_Witness ==
  /\ ThrewAPI
  /\ GotResponse(last.outcome)
  /\ last.outcome.code \in TimeoutCodes
  /\ last.outcome.response.status = 429
  /\ last.result.error.statusCode = 0

\* C3 as stated: for every received failing response the error has the
\* response's status, the body's error field when present (else "APIError"),
\* the body's message field when present (else a text with the status), and
\* the decoded body as responseBody.
C3_Original ==
  (ThrewAPI /\ GotResponse(last.outcome)) =>
    LET e == last.result.error
        status == last.outcome.response.status
        body == last.outcome.response.data
    IN /\ e.statusCode = status
       /\ e.error = (IF Has(body, "error") THEN Get(body, "error") ELSE Str(<<"APIError">>))
       /\ IF Has(body, "message") THEN Str(e.message) = Get(body, "message")
          ELSE Contains(e.message, NumStr(status))
       /\ e.responseBody = body

\* C3 amended: for every received failing response whose transport error
\* carries no timeout or connection-failure code, the error has the
\* response's status; the body's error field when it is present and truthy,
\* else "APIError"; the string form of the body's message field when it is
\* present and truthy, else a generic text containing the status; and as
\* responseBody the decoded body, or {} when the decoded body is falsy (an
\* empty body).  Status 503 with an empty body gives "APIError" and a
\* message containing 503.
C3_FailedResponse ==
  (Settled /\ GotResponse(last.outcome) /\ last.outcome.code \notin NetworkCodes) =>
    LET e == last.result.error
        status == last.outcome.response.status
        body == last.outcome.response.data
        kept == IF Truthy(body) THEN body ELSE Obj(<<>>)
    IN /\ ThrewAPI
       /\ e.statusCode = status
       /\ e.error = (IF Truthy(Get(kept, "error")) THEN Get(kept, "error")
                     ELSE Str(<<"APIError">>))
       /\ IF Truthy(Get(kept, "message"))
            THEN e.message = ToStringJS(Get(kept, "message"))
            ELSE Contains(e.message, NumStr(status))
       /\ e.responseBody = kept
       /\ (status = 503 /\ body = Str(<<>>))
            => /\ e.error = Str(<<"APIError">>)
               /\ Contains(e.message, <<"5", "0", "3">>)

C3_Witness ==
  /\ ThrewAPI
  /\ GotResponse(last.outcome)
  /\ last.outcome.code \notin NetworkCodes
  /\ last.outcome.response = Response(503, Str(<<>>))
  /\ last.result.error.error = Str(<<"APIError">>)
  /\ last.call.op = "proxySalesforceRequest"

\* C4 as stated: the details carry errorCode and message; the three
\* rate-limit keys are there exactly when the original response body carried
\* planLimit, and each of them is there if and only if the body carried it,
\* with the body's value.
C4_Original ==
  ThrewAPI =>
    LET e == last.result.error
        d == last.details
        body == IF GotResponse(last.outcome) THEN last.outcome.response.data ELSE Undef
    IN /\ Get(d, "error") = e.error
       /\ Get(d, "message") = Str(e.message)
       /\ (\A key \in RateKeys : Has(d, key)) <=> Has(body, "planLimit")
       /\ \A key \in RateKeys :
            /\ Has(d, key) <=> Has(body, key)
            /\ Has(d, key) => Get(d, key) = Get(body, key)

\* C4 amended: the details carry errorCode and message; the three rate-limit
\* keys are there, all three together, exactly when the error's responseBody
\* carries planLimit; each then holds the body's value unchanged, and
\* undefined (no default) for a field the body lacks.  For status 429 with
\* the rate-limit body the details hold planLimit 1000, currentUsage 1000
\* and offerings ["a"].
C4_Details ==
  ThrewAPI =>
    LET e == last.result.error
        d == last.details
    IN /\ Get(d, "error") = e.error
       /\ Get(d, "message") = Str(e.message)
       /\ \A key \in RateKeys :
            /\ Has(d, key) <=> Has(e.responseBody, "planLimit")
            /\ Has(d, key) => Get(d, key) = Get(e.responseBody, key)
       /\ (/\ GotResponse(last.outcome)
           /\ last.outcome.code \notin NetworkCodes
           /\ last.outcome.response = Response(429, RateLimitBody))
            => /\ Get(d, "planLimit") = Num(1000)
               /\ Get(d, "currentUsage") = Num(1000)
               /\ Get(d, "offerings") = Arr(<<Str(<<"a">>)>>)
               /\ Get(d, "error") = Str(<<"RateLimited">>)

C4_Witness ==
  /\ ThrewAPI
  /\ Has(last.result.error.responseBody, "planLimit")
  /\ ~Has(last.result.error.responseBody, "currentUsage")
  /\ Has(last.details, "currentUsage")
  /\ Get(last.details, "planLimit") = Num(1000)

\* C5: a request that exceeds the timeout rejects, whatever the operation,
\* with statusCode 0, errorCode "NetworkError", no responseBody and a
\* message naming the operation's verb, the request URL and 30000 ms.
C5_Timeout ==
  (Settled /\ last.outcome.k = "axios" /\ last.outcome.code \in TimeoutCodes) =>
    /\ ThrewAPI
    /\ last.result.error.statusCode = 0
    /\ last.result.error.error = Str(<<"NetworkError">>)
    /\ last.result.error.responseBody = Undef
    /\ Contains(last.result.error.message, VerbOf(last.call.op) \o <<" ">> \o last.req.url)
    /\ Contains(last.result.error.message, NumStr(30000) \o <<"ms">>)

C5_Witness ==
  /\ Settled
  /\ last.call.op = "proxySalesforceRequest"
  /\ last.outcome.k = "axios"
  /\ last.outcome.code = Str(<<"ETIMEDOUT">>)
  /\ last.result.kind = "throw"

\* C6: a refused or unresolved connection rejects, whatever the operation,
\* with statusCode 0, errorCode "NetworkError", no responseBody and a
\* message saying the request URL could not be reached.
C6_ConnectionFailure ==
  (Settled /\ last.outcome.k = "axios" /\ last.outcome.code \in ConnectionCodes) =>
    /\ ThrewAPI
    /\ last.result.error.statusCode = 0
    /\ last.result.error.error = Str(<<"NetworkError">>)
    /\ last.result.error.responseBody = Undef
    /\ last.result.error.message
         = <<"Connection failed: Unable to reach ">> \o last.req.url

C6_Witness ==
  /\ Settled
  /\ last.call.op = "getConnectionCredentials"
  /\ last.outcome.k = "axios"
  /\ last.outcome.code = Str(<<"ENOTFOUND">>)
  /\ last.result.kind = "throw"

\* C7: every failure of an operation, debug set or not, reaches the caller
\* as an AppnigmaAPIError; nothing of another type is ever thrown.
C7_AllFailuresStructured ==
  (Settled /\ last.result.kind = "throw") => last.result.error.k = "AppnigmaAPIError"

\* C8: with debug set, a failure inside the logging helpers leaves the
\* outcome as it is with debug off: for the same arguments and the same
\* answer of the transport, the same request is issued and the same value
\* returned or the same error thrown.
C8_LoggingNeverChangesOutcome ==
  (Settled /\ client.debug) =>
    LET quiet == [client EXCEPT !.debug = FALSE]
        b == Begin(quiet, last.call)
    IN /\ last.sends = 1
       /\ last.req = b.req
       /\ last.result = Finish(quiet, b.req, last.outcome).result

\* C9: with debug set, no line an operation logs contains the API key, and
\* the Authorization header is logged as "Bearer ***".
C9_NoKeyInLogs ==
  Settled =>
    /\ \A i \in 1..Len(last.log) : ~Contains(last.log[i], client.apiKey)
    /\ client.debug =>
         Contains(last.log[2],
                  <<"\"", "Authorization", "\"", ":", "\"", "Bearer ***", "\"">>)

\* C10: every invocation of an operation, successful or not, makes exactly
\* one transport call.
C10_ExactlyOneTransportCall ==
  /\ Settled => last.sends = 1
  /\ \A id \in Slots : calls[id] # Idle => calls[id].sends = 1

\* A failure the documentation calls transient: the server answered 5xx, or
\* the request failed below HTTP (no response at all).
TransientFailure(o) ==
  /\ o.k = "axios"
  /\ \/ ~Truthy(o.response)
     \/ Truthy(o.response) /\ o.response.status >= 500

\* C11: when a proxied Salesforce request fails with a transient failure
\* (a 5xx answer or a network-level failure), the SDK has re-issued the
\* request itself before the error reaches the caller: the caller sees the
\* error only after at least two transport calls were made for the operation.
C11_RetriesTransientFailures ==
  ( /\ Settled
    /\ last.call.op = "proxySalesforceRequest"
    /\ TransientFailure(last.outcome) )
  => last.sends >= 2

\* The operations the transport was called for, each with its call and the
\* request handed over: those awaiting an answer and the one settled last.
Outbound ==
  {[call |-> calls[id].call, req |-> calls[id].req] :
     id \in {i \in Slots : calls[i] # Idle}}
  \cup (IF Settled /\ last.sends >= 1
          THEN {[call |-> last.call, req |-> last.req]} ELSE {})

\* C12: every request handed to the transport, by any operation, after any
\* sequence of operations and whatever the debug flag, carries the header
\* Authorization = "Bearer " followed by the key the constructor stored, and
\* a User-Agent header naming the SDK and its version.
C12_AuthAndUserAgentOnEveryRequest ==
  \A x \in Outbound :
    /\ Get(x.req.headers, "Authorization") = Str(<<"Bearer ">> \o client.apiKey)
    /\ Get(x.req.headers, "User-Agent")
         = Str(<<"Appnigma-Integrations-Client-Node/", "0.1.3">>)

\* A second operation is in flight after a first one settled, on a client
\* that took its key from the environment and logs.
C12_Witness ==
  /\ Settled /\ last.sends = 1
  /\ calls[1] # Idle
  /\ calls[1].call.op # last.call.op
  /\ client.apiKey = KeyB
  /\ client.debug

(***************************************************************************)
(* The request-building specification: one operation with any arguments    *)
(***************************************************************************)
\* Clients with the default and with a slash-terminated base URL, logging
\* or not.
ReqConfigs ==
  { Config(Str(KeyA), b, d) :
      b \in {Undef, Str(<<"https://x", "/">>)}, d \in {Bool(TRUE), Bool(FALSE)} }

\* An identifier no caller supplies, supplies empty, or supplies.
ReqIntegrationIds == {Undef, Str(<<>>), Str(<<"int-1">>)}

\* ListConnectionsOptions: every subset of the fields, with values that are
\* empty, zero, or hold characters with a meaning in a query string; one
\* object lists its fields in another order than the code reads them.
ReqListOptions ==
  {Undef, Obj(<<<<"limit", Num(50)>>, <<"status", Str(<<"connected">>)>>>>)}
  \cup { Obj(Field("integrationId", g) \o Field("environment", e)
             \o Field("status", st) \o Field("search", q) \o Field("limit", l)
             \o Field("cursor", cu)) :
           g \in ReqIntegrationIds,
           e \in {Undef, Str(<<"production">>)},
           st \in {Undef, Str(<<"connected">>)},
           q \in {Undef, Str(<<>>), Str(<<"a", " ", "b">>),
                  Str(<<"x", "&", "limit", "=", "1">>)},
           l \in {Undef, Num(0), Num(50)},
           cu \in {Undef, Str(<<"c1">>)} }

\* Connection identifiers: a plain one, and ones holding characters with a
\* meaning in a URL.
ReqConnectionIds ==
  { Str(<<"conn-1">>), Str(<<"conn-1", "?", "x", "=", "1">>),
    Str(<<"..", "/", "proxy">>) }

ReqCalls ==
  {ListCall(o) : o \in ReqListOptions}
  \cup {CredentialsCall(cid, g) : cid \in ReqConnectionIds, g \in ReqIntegrationIds}
  \cup {ProxyCall(cid, d, g) : cid \in ReqConnectionIds,
                               d \in {SoqlRequest, KeyRequest},
                               g \in ReqIntegrationIds}

ReqOutcomes ==
  { Ok(200, Obj(<<<<"connections", Arr(<<>>)>>, <<"totalCount", Num(0)>>>>)),
    AxiosError(Str(<<"ERR_BAD_RESPONSE">>), Response(503, Str(<<>>)),
               Str(<<"Request failed with status code 503">>)) }

InitReq ==
  /\ env = Undef
  /\ \E config \in ReqConfigs :
       /\ client = Client(Constructor(config, env).client)
       /\ ctor = [state |-> "ok", config |-> config]
  /\ calls = [id \in Slots |-> Idle]
  /\ last = NoCall

NextReq ==
  \/ \E call \in ReqCalls : last = NoCall /\ Invoke(1, call)
  \/ \E outcome \in ReqOutcomes : Settle(1, outcome)

SpecReq == InitReq /\ [][NextReq]_vars

\* C13: a proxied Salesforce request is a POST to the normalized base URL
\* followed by the fixed path /api/v1/proxy/salesforce, whatever the
\* connection identifier and the request descriptor are; the connection
\* identifier travels only as the X-Connection-Id header, and the body is
\* exactly the descriptor the caller passed.
C13_ProxyFixedPath ==
  \A x \in Outbound :
    x.call.op = "proxySalesforceRequest" =>
      /\ x.req.method = <<"POST">>
      /\ x.req.url = client.baseUrl \o <<"/api/v1/proxy/salesforce">>
      /\ Get(x.req.headers, "X-Connection-Id") = x.call.connectionId
      /\ x.req.data = x.call.requestData

\* A proxied request whose connection identifier holds a "?" was sent.
C13_Witness ==
  /\ Settled /\ last.sends = 1
  /\ last.call.op = "proxySalesforceRequest"
  /\ last.call.connectionId = Str(<<"conn-1", "?", "x", "=", "1">>)
  /\ last.call.requestData = KeyRequest
  /\ last.req.url = <<"https://x", "/api/v1/proxy/salesforce">>

(***************************************************************************)
(* A URL as its receiver reads it: the part before the first "?", and the  *)
(* form-decoded parameters after it                                         *)
(***************************************************************************)
QueryStart(url) ==
  IF \E i \in 1..Len(url) : url[i] = "?"
    THEN CHOOSE i \in 1..Len(url) : url[i] = "?" /\ \A j \in 1..(i - 1) : url[j] # "?"
    ELSE 0

BeforeQuery(url) ==
  IF QueryStart(url) = 0 THEN url ELSE SubSeq(url, 1, QueryStart(url) - 1)

QueryOf(url) ==
  IF QueryStart(url) = 0 THEN <<>> ELSE SubSeq(url, QueryStart(url) + 1, Len(url))

DecodeToken(tok) ==
  CASE tok = "+" -> " "
    [] tok = "%2B" -> "+"
    [] tok = "%26" -> "&"
    [] tok = "%3D" -> "="
    [] tok = "%3F" -> "?"
    [] tok = "%2F" -> "/"
    [] tok = "%23" -> "#"
    [] OTHER -> tok

Decode(s) == [i \in 1..Len(s) |-> DecodeToken(s[i])]

RECURSIVE ParseQuery(_)
\* The <<name, value>> pairs of a query string, in order: split at "&",
\* each part split at its first "=", the value decoded.
ParseQuery(q) ==
  IF q = <<>> THEN <<>>
  ELSE LET amp == IF \E i \in 1..Len(q) : q[i] = "&"
                    THEN CHOOSE i \in 1..Len(q) :
                           q[i] = "&" /\ \A j \in 1..(i - 1) : q[j] # "&"
                    ELSE Len(q) + 1
           part == SubSeq(q, 1, amp - 1)
           pair == IF Len(part) >= 2 /\ part[2] = "="
                     THEN <<part[1], Decode(SubSeq(part, 3, Len(part)))>>
                     ELSE <<part, <<>>>>
       IN <<pair>> \o ParseQuery(SubSeq(q, amp + 1, Len(q)))

ListFields == {ParamNames[i] : i \in 1..Len(ParamNames)}

\* C14: for every options object, listConnections issues a GET to
\* /api/v1/connections under the base URL whose query string holds a
\* parameter named environment, status, search, limit or cursor exactly when
\* that field of the options is defined, once, with String(field) as its
\* value; a field that is undefined contributes nothing, not even an empty
\* value, and no other parameter is sent.  For {status: "connected",
\* limit: 50} the query string is exactly status=connected&limit=50.
C14_ListQueryString ==
  \A x \in Outbound :
    x.call.op = "listConnections" =>
      LET o == x.call.options
          params == ParseQuery(QueryOf(x.req.url))
      IN /\ x.req.method = <<"GET">>
         /\ BeforeQuery(x.req.url) = client.baseUrl \o <<"/api/v1/connections">>
         /\ \A f \in ListFields :
              (Get(o, f) # Undef) <=> (\E i \in 1..Len(params) : params[i][1] = f)
         /\ \A i \in 1..Len(params) :
              /\ params[i][1] \in ListFields
              /\ params[i][2] = ToStringJS(Get(o, params[i][1]))
              /\ \A j \in 1..Len(params) : params[j][1] = params[i][1] => j = i
         /\ ( /\ Get(o, "status") = Str(<<"connected">>)
              /\ Get(o, "limit") = Num(50)
              /\ \A f \in ListFields \ {"status", "limit"} : Get(o, f) = Undef )
            => QueryOf(x.req.url)
                 = <<"status", "=", "connected", "&", "limit", "=", "5", "0">>

\* listConnections({limit: 50, status: "connected"}) was sent, and so was
\* nothing but status=connected&limit=50.
C14_Witness ==
  /\ Settled /\ last.sends = 1
  /\ last.call.op = "listConnections"
  /\ last.call.options = Obj(<<<<"limit", Num(50)>>, <<"status", Str(<<"connected">>)>>>>)
  /\ last.req.url = <<"https://integrations.appnigma.ai", "/api/v1/connections", "?",
                      "status", "=", "connected", "&", "limit", "=", "5", "0">>

\* C15: for every connection identifier, getConnectionCredentials issues a
\* GET whose URL is the base URL followed by
\* /api/v1/connections/{connectionId}/credentials and has no query string:
\* the identifier is one opaque path segment, it introduces no "?" and no
\* further "/" into the URL.
C15_CredentialsUrlOpaqueSegment ==
  \A x \in Outbound :
    x.call.op = "getConnectionCredentials" =>
      LET url == x.req.url
          n == Len(client.baseUrl)
      IN /\ x.req.method = <<"GET">>
         /\ url = client.baseUrl \o <<"/api/v1/connections/">>
                  \o x.call.connectionId.v \o <<"/credentials">>
         /\ QueryOf(url) = <<>>
         /\ \A i \in (n + 2)..(Len(url) - 1) : url[i] \notin {"/", "?", "#"}

\* The integration identifier the caller passed to an operation.
SuppliedIntegrationId(call) ==
  IF call.op = "listConnections" THEN Get(call.options, "integrationId")
  ELSE call.integrationId

\* The same call with no integration identifier passed.
WithoutIntegrationId(call) ==
  LET Other(p) == p[1] # "integrationId"
  IN [call EXCEPT !.integrationId = Undef,
                  !.options = IF call.options.t = "object"
                                THEN Obj(SelectSeq(call.options.v, Other))
                                ELSE call.options]

\* The URL and the body of a request are those of the same call made with
\* no integration identifier: the identifier reaches neither.
IntegrationIdOnlyInHeaders(x) ==
  /\ x.req.url = RequestOf(client, WithoutIntegrationId(x.call)).url
  /\ x.req.data = RequestOf(client, WithoutIntegrationId(x.call)).data

\* C16 as stated: in all three operations an integration identifier the
\* caller supplies (any value but undefined) is sent as the X-Integration-Id
\* header with exactly that value and reaches neither URL nor body; with none
\* supplied the header is absent.
C16_Original ==
  \A x \in Outbound :
    LET g == SuppliedIntegrationId(x.call)
    IN /\ g # Undef => /\ Has(x.req.headers, "X-Integration-Id")
                       /\ Get(x.req.headers, "X-Integration-Id") = g
       /\ g = Undef => ~Has(x.req.headers, "X-Integration-Id")
       /\ IntegrationIdOnlyInHeaders(x)

\* C16: in all three operations a non-empty integration identifier the caller
\* supplies is sent as the X-Integration-Id header with exactly that value;
\* with none supplied, or an empty string, the header is absent; in every
\* case the identifier reaches neither the URL nor the body.
C16_IntegrationHeader ==
  \A x \in Outbound :
    LET g == SuppliedIntegrationId(x.call)
    IN /\ Truthy(g) => /\ Has(x.req.headers, "X-Integration-Id")
                       /\ Get(x.req.headers, "X-Integration-Id") = g
       /\ ~Truthy(g) => ~Has(x.req.headers, "X-Integration-Id")
       /\ IntegrationIdOnlyInHeaders(x)

\* listConnections was called with an integration identifier and a search
\* filter: the identifier is in the header, the filter in the query string.
C16_Witness ==
  /\ Settled /\ last.sends = 1
  /\ last.call.op = "listConnections"
  /\ Get(last.call.options, "integrationId") = Str(<<"int-1">>)
  /\ Get(last.call.options, "search") = Str(<<"a", " ", "b">>)
  /\ Get(last.req.headers, "X-Integration-Id") = Str(<<"int-1">>)
  /\ QueryOf(last.req.url) = <<"search", "=", "a", "+", "b">>

\* C17: whenever the transport returns a successful (2xx) response, the
\* operation, whichever of the three it is, resolves with exactly the
\* response body the transport decoded, unchanged, and throws nothing.
C17_SuccessReturnsBody ==
  ( /\ Settled
    /\ last.outcome.k = "response"
    /\ last.outcome.response.status \in 200..299 )
  => last.result = Return(last.outcome.response.data)

\* A logging client's proxied request was answered 204 with an empty body,
\* and the caller got the empty body.
C17_Witness ==
  /\ Settled
  /\ client.debug
  /\ last.call.op = "proxySalesforceRequest"
  /\ last.outcome = Ok(204, Str(<<>>))
  /\ last.result = Return(Str(<<>>))

\* C20: operations issued concurrently on the same client do not interfere,
\* under every interleaving of their calls and settlements: the request of
\* every operation in flight is the one built from that operation's own
\* arguments and the client configuration, and the caller of the operation
\* that settles receives what its own request was settled with: the body
\* answering its own URL on success, the classification of its own failure
\* otherwise.
C20_NoInterference ==
  /\ \A id \in Slots :
       calls[id] # Idle => calls[id].req = RequestOf(client, calls[id].call)
  /\ (Settled /\ last.sends >= 1) =>
       LET own == RequestOf(client, last.call)
       IN /\ last.req = own
          /\ last.result = Finish(client, own, last.outcome).result
          /\ ( /\ last.outcome.k = "response"
               /\ Has(last.outcome.response.data, "requested") ) =>
               /\ last.result.kind = "return"
               /\ Get(last.result.value, "requested") = Str(own.url)
               /\ Get(last.result.value, "connection")
                    = Get(own.headers, "X-Connection-Id")

\* Two credential fetches for different connections were in flight together;
\* the second slot's was answered first and its caller got the answer for
\* its own connection while the other is still awaiting.
C20_Witness ==
  /\ Settled /\ last.id = 2
  /\ last.call = CredentialsCall(Str(<<"conn-2">>), Str(<<"int-1">>))
  /\ calls[1] # Idle
  /\ calls[1].call = CredentialsCall(Str(<<"conn-1">>), Undef)
  /\ last.outcome = AnswerTo(last.req)
  /\ Get(last.result.value, "requested")
       = Str(<<"https://integrations.appnigma.ai", "/api/v1/connections/",
               "conn-2", "/credentials">>)

\* s ends in a slash / in two slashes.
EndsInSlash(s) == Len(s) >= 1 /\ s[Len(s)] = "/"

EndsInTwoSlashes(s) == Len(s) >= 2 /\ s[Len(s)] = "/" /\ s[Len(s) - 1] = "/"

\* C18 as stated: the base URL the client stores is the supplied baseUrl
\* with exactly one trailing slash removed when there is one, and the
\* normalization is idempotent for every input: applied to the stored
\* (already normalized) base URL it returns it unchanged.
C18_Original ==
  (ctor.state = "ok" /\ ctor.config.baseUrl # Undef) =>
    LET b == ctor.config.baseUrl.v
    IN /\ client.baseUrl = (IF EndsInSlash(b) THEN SubSeq(b, 1, Len(b) - 1) ELSE b)
       /\ StripTrailingSlash(client.baseUrl) = client.baseUrl

\* C18: the base URL the client stores is the supplied non-empty baseUrl
\* with exactly one trailing slash removed when there is one (the default
\* base URL when baseUrl is absent or empty); applying the normalization to
\* the stored base URL returns it unchanged exactly when the supplied one
\* did not end in two or more slashes.
C18_BaseUrlNormalized ==
  ctor.state = "ok" =>
    LET supplied == ctor.config.baseUrl
        b == IF Truthy(supplied) THEN supplied.v ELSE DEFAULT_BASE_URL
    IN /\ client.baseUrl = (IF EndsInSlash(b) THEN SubSeq(b, 1, Len(b) - 1) ELSE b)
       /\ (StripTrailingSlash(client.baseUrl) = client.baseUrl)
            <=> ~EndsInTwoSlashes(b)

\* A client was built with baseUrl "https://x/" and stores "https://x".
C18_Witness ==
  /\ ctor.state = "ok"
  /\ ctor.config.baseUrl = Str(<<"https://x", "/">>)
  /\ client.baseUrl = <<"https://x">>
  /\ StripTrailingSlash(client.baseUrl) = client.baseUrl

\* C19 as stated: the key of a client is the explicit configuration value
\* whenever one is supplied (any value but undefined), whatever the
\* environment variable holds, and the environment variable only when none
\* is supplied; that key is the one in the Authorization header of every
\* later request.
C19_Original ==
  ctor.state = "ok" =>
    LET k == ctor.config.apiKey
        resolved == IF k # Undef THEN k.v ELSE env.v
    IN /\ client.apiKey = resolved
       /\ \A x \in Outbound :
            Get(x.req.headers, "Authorization") = Str(<<"Bearer ">> \o resolved)

\* C19: the key of a client is the explicit configuration value whenever a
\* non-empty one is supplied, whatever the environment variable holds, and
\* the environment variable when the explicit value is absent or the empty
\* string; that key is the one in the Authorization header of every later
\* request.
C19_KeyResolution ==
  ctor.state = "ok" =>
    LET k == ctor.config.apiKey
        resolved == IF Truthy(k) THEN k.v ELSE env.v
    IN /\ client.apiKey = resolved
       /\ \A x \in Outbound :
            Get(x.req.headers, "Authorization") = Str(<<"Bearer ">> \o resolved)

\* Configuration and environment both held a key; a request went out with
\* the configuration's.
C19_Witness ==
  /\ ctor.state = "ok"
  /\ ctor.config.apiKey = Str(KeyA)
  /\ env = Str(KeyB)
  /\ Settled /\ last.sends = 1
  /\ Get(last.req.headers, "Authorization") = Str(<<"Bearer ", "sk_live_A">>)

\* C21: every request of every operation is handed to the transport with
\* the timeout 30000 ms, whatever the arguments of the operation and the
\* configuration of the client are.
C21_FixedTimeout ==
  \A x \in Outbound : x.req.timeout = 30000

\* A page of 50 connections was requested from a client with its own base
\* URL and debug set; the request went out with the 30000 ms timeout.
C21_Witness ==
  /\ Settled /\ last.sends = 1
  /\ last.call.op = "listConnections"
  /\ Get(last.call.options, "limit") = Num(50)
  /\ client.baseUrl = <<"https://x">>
  /\ client.debug
  /\ last.req.timeout = 30000

\* The rules of the classifier, numbered in the order the claim gives them,
\* as conditions on what was thrown inside the try block.
RuleMatches(i, o) ==
  CASE i = 1 -> o.k = "axios" /\ o.code \in TimeoutCodes
    [] i = 2 -> o.k = "axios" /\ o.code \in ConnectionCodes
    [] i = 3 -> o.k = "axios" /\ Truthy(o.response)
    [] i = 4 -> o.k = "axios"
    [] OTHER -> o.k # "axios"

Rules == 1..5

FirstRule(o) == CHOOSE i \in Rules : RuleMatches(i, o) /\ \A j \in 1..(i - 1) : ~RuleMatches(j, o)

\* The rule a structured error shows to have been applied, read off its
\* fields only; 0 when it shows none or more than one.
RuleShown(e) ==
  LET starts(t) == Len(e.message) >= 1 /\ e.message[1] = t
      shown ==
        { i \in Rules :
            CASE i = 1 -> /\ e.statusCode = 0 /\ e.error = Str(<<"NetworkError">>)
                          /\ e.responseBody = Undef /\ starts("Request timeout: ")
              [] i = 2 -> /\ e.statusCode = 0 /\ e.error = Str(<<"NetworkError">>)
                          /\ e.responseBody = Undef
                          /\ starts("Connection failed: Unable to reach ")
              [] i = 3 -> e.statusCode # 0 /\ e.responseBody # Undef
              [] i = 4 -> /\ e.statusCode = 0 /\ e.error = Str(<<"RequestError">>)
                          /\ e.responseBody = Undef
              [] OTHER -> /\ e.statusCode = 0 /\ e.error = Str(<<"UnknownError">>)
                          /\ e.responseBody = Undef }
  IN IF Cardinality(shown) = 1 THEN CHOOSE i \in shown : TRUE ELSE 0

\* C22: the classifier applies its rules in the order timeout, connection
\* failure, received failing response, other transport exception,
\* non-transport exception, and the first rule that matches decides: whatever
\* is thrown inside the try block, a transport error matching several rules
\* or a thrown value that is no Error, the operation rejects with exactly one
\* structured error, the one of the earliest matching rule.
C22_ClassifierOrder ==
  Settled =>
    /\ ThrewAPI
    /\ RuleShown(last.result.error) = FirstRule(last.outcome)

\* A transport error carrying both a timeout code and a 429 response was
\* classified as a timeout.
C22_Witness ==
  /\ ThrewAPI
  /\ last.outcome.k = "axios"
  /\ last.outcome.code = Str(<<"ETIMEDOUT">>)
  /\ Truthy(last.outcome.response)
  /\ last.outcome.response.status = 429
  /\ RuleShown(last.result.error) = 1

\* C23: a non-transport exception raised during an operation is reported
\* with statusCode 0, errorCode "UnknownError" and the exception's message;
\* when the exception provides no message (a thrown value that is no Error,
\* or an Error whose message is empty) the message is the fixed string
\* "An unknown error occurred".
C23_UnknownError ==
  (Settled /\ last.outcome.k \in {"error", "value"}) =>
    /\ ThrewAPI
    /\ last.result.error.statusCode = 0
    /\ last.result.error.error = Str(<<"UnknownError">>)
    /\ last.result.error.message
         = (IF last.outcome.k = "error" /\ Truthy(last.outcome.message)
              THEN last.outcome.message.v
              ELSE <<"An unknown error occurred">>)

\* A transport exception that is neither a timeout nor a connection failure
\* and carries no HTTP response.
OtherTransportFailure(o) ==
  o.k = "axios" /\ o.code \notin NetworkCodes /\ ~Truthy(o.response)

\* C24 as stated: a transport exception that is neither a timeout nor a
\* connection failure and carries no response is reported with statusCode 0,
\* errorCode "RequestError", no responseBody and the message of the
\* underlying exception, whatever that message is.
C24_Original ==
  (Settled /\ OtherTransportFailure(last.outcome)) =>
    /\ ThrewAPI
    /\ last.result.error.statusCode = 0
    /\ last.result.error.error = Str(<<"RequestError">>)
    /\ last.result.error.responseBody = Undef
    /\ last.result.error.message = last.outcome.message.v

\* C24: a transport exception that is neither a timeout nor a connection
\* failure and carries no response is reported with statusCode 0, errorCode
\* "RequestError", no responseBody, and the message of the underlying
\* exception when that is non-empty, "Unknown request error" otherwise.
C24_RequestError ==
  (Settled /\ OtherTransportFailure(last.outcome)) =>
    /\ ThrewAPI
    /\ last.result.error.statusCode = 0
    /\ last.result.error.error = Str(<<"RequestError">>)
    /\ last.result.error.responseBody = Undef
    /\ last.result.error.message
         = (IF Truthy(last.outcome.message) THEN last.outcome.message.v
            ELSE <<"Unknown request error">>)

\* A request died with "socket hang up", no code and no response, and the
\* caller got a RequestError with that message.
C24_Witness ==
  /\ ThrewAPI
  /\ OtherTransportFailure(last.outcome)
  /\ last.outcome.code = Undef
  /\ last.outcome.message = Str(<<"socket hang up">>)
  /\ last.result.error.error = Str(<<"RequestError">>)
  /\ last.result.error.message = <<"socket hang up">>

\* The position of a step in the trace of an operation, 0 when absent.
StepAt(trace, step) ==
  IF \E i \in 1..Len(trace) : trace[i] = step
    THEN CHOOSE i \in 1..Len(trace) : trace[i] = step /\ \A j \in 1..(i - 1) : trace[j] # step
    ELSE 0

\* C25: with debug set, every operation writes its request log (method and
\* URL, the headers, and the request body when there is one) before the
\* transport call, and whenever an HTTP response is received for the call,
\* successful or not, it then writes a response log with method, URL, the
\* received status and the response body; a response log never precedes the
\* request log.
C25_DebugLogOrder ==
  (Settled /\ client.debug) =>
    LET req == last.req
        hasBody == Truthy(req.data)
        nreq == IF hasBody THEN 3 ELSE 2
        received == \/ last.outcome.k = "response"
                    \/ GotResponse(last.outcome)
        response == last.outcome.response
    IN /\ StepAt(last.trace, "logRequest") = 1
       /\ Len(last.log) >= nreq
       /\ last.log[1] = <<LogPrefix>> \o req.method \o <<" ">> \o req.url
       /\ SubSeq(last.log[2], 1, 2) = <<LogPrefix, "Headers:">>
       /\ hasBody => SubSeq(last.log[3], 1, 2) = <<LogPrefix, "Request Body:">>
       /\ StepAt(last.trace, "logResponse") # 0 =>
            StepAt(last.trace, "logResponse") > StepAt(last.trace, "send")
       /\ received =>
            /\ StepAt(last.trace, "send") = 2
            /\ StepAt(last.trace, "logResponse") = 3
            /\ Len(last.log) = nreq + 2
            /\ last.log[nreq + 1]
                 = <<LogPrefix>> \o req.method \o <<" ">> \o req.url
                   \o <<" - Status: ">> \o NumStr(response.status)
            /\ last.log[nreq + 2]
                 = <<LogPrefix, "Response Body:", " ">> \o Stringify(response.data)

\* C26: the configuration of a client is fixed by its construction: after
\* any sequence of operations, returned or thrown, apiKey, baseUrl and debug
\* are the values the constructor resolved from the configuration object
\* and the environment.
C26_ConfigImmutable ==
  client # NoClient =>
    /\ ctor.state = "ok"
    /\ client = Client(Constructor(ctor.config, env).client)

\* An operation failed, the next one is in flight, on a client built with a
\* base URL of its own and a key from the environment.
C26_Witness ==
  /\ client # NoClient
  /\ Settled /\ last.result.kind = "throw"
  /\ calls[1] # Idle
  /\ ctor.config.apiKey = Undef
  /\ ctor.config.baseUrl = Str(<<"https://x", "/">>)
  /\ client.apiKey = KeyB /\ client.baseUrl = <<"https://x">>

\* C27: every structured error an operation throws has a message that is a
\* non-empty string and an errorCode that is a string, whatever the
\* transport error and whatever the response body holds, bodies whose error
\* or message field is no string included.
C27_MessageAndCodeAreStrings ==
  ThrewAPI =>
    /\ last.result.error.message # <<>>
    /\ last.result.error.error.t = "string"

(***************************************************************************)
(* The progress specification: operations in flight together, the          *)
(* transport bound to answer the request of the first slot only            *)
(***************************************************************************)
LiveCalls == ErrCalls \cup {ProxyCall(Str(<<"conn-1">>), BigIntRequest, Undef)}

\* The transport answers, fails, or times out.
LiveOutcomes ==
  ReqOutcomes
  \cup {AxiosError(Str(<<"ECONNABORTED">>), Undef, Str(<<"timeout of 30000ms exceeded">>))}

NextLive ==
  \/ \E id \in Slots, call \in LiveCalls : Invoke(id, call)
  \/ \E id \in Slots, outcome \in LiveOutcomes : Settle(id, outcome)

\* Every request of slot 1 is eventually settled by the transport; the
\* requests of the other slots may stay unanswered for ever.
SpecLive ==
  /\ Init
  /\ [][NextLive]_vars
  /\ WF_vars(\E outcome \in LiveOutcomes : Settle(1, outcome))

\* A caller receives a result in this step: that of the invocation of slot
\* id, which either ends its wait or was rejected before sending.
Delivers(id) ==
  /\ last'.id = id
  /\ last'.result.kind \in {"return", "throw"}
  /\ calls'[id] = Idle
  /\ \/ calls[id] # Idle /\ last'.call = calls[id].call /\ last'.sends = 1
     \/ calls[id] = Idle /\ last'.sends = 0 /\ last'.result.kind = "throw"

\* C28: every invoked operation settles exactly once.  A result reaches a
\* caller only as the single end of one invocation, as a return or as a
\* throw; an invocation ends its wait only by delivering its result; and,
\* provided the transport settles its request, an operation in flight
\* eventually settles, whether or not the other operations in flight on the
\* client ever do.
C28_SettlesExactlyOnce ==
  /\ [][ /\ last' # last => \E id \in Slots : Delivers(id)
         /\ \A id \in Slots :
              (calls[id] # Idle /\ calls'[id] # calls[id]) => Delivers(id) ]_vars
  /\ (calls[1] # Idle) ~> (calls[1] = Idle /\ last.id = 1)

\* The operation of slot 1 settled while one of another slot is still
\* waiting for the transport.
C28_Witness ==
  /\ Settled /\ last.id = 1 /\ last.sends = 1
  /\ calls[1] = Idle
  /\ \E id \in Slots \ {1} : calls[id] # Idle

TransportClassCodes ==
  {Str(<<"NetworkError">>), Str(<<"RequestError">>), Str(<<"UnknownError">>)}

\* C29 as stated: in every error an operation throws, an errorCode of
\* "NetworkError", "RequestError" or "UnknownError" comes with statusCode 0
\* and no responseBody, whatever a received response body contains.
C29_Original ==
  (ThrewAPI /\ last.result.error.error \in TransportClassCodes) =>
    /\ last.result.error.statusCode = 0
    /\ last.result.error.responseBody = Undef

\* C29: in every error an operation throws, an errorCode of "NetworkError",
\* "RequestError" or "UnknownError" comes with statusCode 0 and no
\* responseBody, unless the error reports a received response whose body
\* names that very code in its `error` field; and an error without a
\* responseBody always has statusCode 0 and one of the three codes.
C29_TransportClassCodes ==
  ThrewAPI =>
    LET e == last.result.error
    IN /\ e.error \in TransportClassCodes =>
            \/ e.statusCode = 0 /\ e.responseBody = Undef
            \/ /\ GotResponse(last.outcome)
               /\ e.statusCode = last.outcome.response.status
               /\ Get(last.outcome.response.data, "error") = e.error
       /\ e.responseBody = Undef =>
            e.statusCode = 0 /\ e.error \in TransportClassCodes

\* A refused connection whose error object still carries a 503 response
\* with a body was reported as NetworkError, status 0, no body.
C29_Witness ==
  /\ ThrewAPI
  /\ last.outcome.k = "axios"
  /\ last.outcome.code = Str(<<"ECONNREFUSED">>)
  /\ GotResponse(last.outcome)
  /\ Has(last.outcome.response.data, "error")
  /\ last.result.error.error = Str(<<"NetworkError">>)
  /\ last.result.error.statusCode = 0
  /\ last.result.error.responseBody = Undef

\* C30: debug redaction acts on a copy of the headers.  The headers handed
\* to the transport by a logging client are those a client with debug off
\* hands over for the same call, the Authorization header among them holds
\* the real key and not the placeholder, and the body handed over is the
\* request descriptor as the caller passed it.
C30_RedactionOnCopy ==
  \A x \in Outbound :
    LET quiet == [client EXCEPT !.debug = FALSE]
    IN /\ x.req.headers = Begin(quiet, x.call).req.headers
       /\ Get(x.req.headers, "Authorization") = Str(<<"Bearer ">> \o client.apiKey)
       /\ Get(x.req.headers, "Authorization") # Str(<<"Bearer ***">>)
       /\ x.req.data = x.call.requestData

\* A logging client logged the placeholder and sent the real key, with the
\* descriptor as its body.
C30_Witness ==
  /\ client.debug
  /\ Settled /\ last.sends = 1
  /\ last.call.op = "proxySalesforceRequest"
  /\ Contains(last.log[2], <<"\"", "Authorization", "\"", ":", "\"", "Bearer ***", "\"">>)
  /\ Get(last.req.headers, "Authorization") = Str(<<"Bearer ", "sk_live_A">>)
  /\ last.req.data = KeyRequest

====
